---- MODULE Spec2Model ----
(***************************************************************************)
(* The battle-dinghy escrow program (programs/battle-dinghy/src/lib.rs):   *)
(* one GameEscrow record, the lamport balances of the accounts that take   *)
(* part, and the instructions create_game, join_game, start_game,          *)
(* declare_winner, cancel_game, claim_refund, emergency_halt, resume_game. *)
(* Every instruction is an operator from (record, balances, inputs) to     *)
(* (result, record, balances), written in the order of the handler's       *)
(* statements; an action applies one instruction to the current state.     *)
(***************************************************************************)
EXTENDS Integers, Sequences, FiniteSets, TLC

VARIABLES
    escrow,     \* the GameEscrow account data
    lamports,   \* lamport balance of every account, the escrow's included
    clock,      \* Clock::get()?.unix_timestamp
    last,       \* the instruction executed by the latest step and its result
    ledger      \* history: the lamports each kind of instruction has moved so far
                \* (deposited by join_game, paid out of the escrow and paid to the
                \* declared winner by declare_winner, refunded to each signer by
                \* claim_refund) and the number of successful declare_winner calls

vars == <<escrow, lamports, clock, last, ledger>>

----------------------------------------------------------------------------
(* Bounds of the model *)

MaxUsers == 3   \* signers other than the operator are 1..MaxUsers
MaxCap   == 2   \* largest max_players given to create_game
MaxHours == 1   \* largest fill_deadline_hours given to create_game
MaxSteps == 2   \* clock readings after the creation and after the fill deadline

(* Program constants *)

MAX_GAME_ID_LEN   == 32
MAX_PLAYERS       == 10
MINIMUM_GAME_TIME == 60
SecondsPerHour    == 3600
\* rent.minimum_balance(ESCROW_SIZE): the reserve the escrow account is
\* created with and that declare_winner leaves behind
RentExempt        == 5066880

----------------------------------------------------------------------------
(* Identities and inputs *)

OperatorKey == 0                    \* the signer that created the game
Signers     == 0 .. MaxUsers        \* accounts that can sign an instruction
EscrowKey   == MaxUsers + 1         \* the escrow PDA: holds funds, never signs
Keys        == Signers \cup {EscrowKey}
NoKey       == 0 - 1

GameId      == <<103, 49>>          \* "g1"
SeedValue   == <<7>>
BumpValue   == <<255>>
BuyIns      == {0, 100}
ProofHashes == {<<11>>}

ClockStep   == MINIMUM_GAME_TIME \div 2
\* the readings the clock takes: around the creation of the game and around
\* its fill deadline
ClockValues(e) ==
    {t + k * ClockStep : t \in {e.created_at, e.fill_deadline}, k \in 0 .. MaxSteps}

\* the accounts passed as ctx.accounts.winner: the declared winner's own, another
\* signer's (the operator's), and the escrow account itself
WinnerAccounts(winner) == {winner, OperatorKey, EscrowKey}

\* Option<T>
None    == <<>>
Some(x) == <<x>>

\* balances before the game is created: signer MaxUsers cannot afford a buy-in
StartLamports(a) ==
    IF a = EscrowKey THEN RentExempt
    ELSE IF a = MaxUsers THEN 50
    ELSE 1000

----------------------------------------------------------------------------
(* Helpers *)

\* Vec::contains
Contains(s, x) == \E i \in 1 .. Len(s) : s[i] = x

\* Iterator::position: the first index holding x (0 when there is none)
Position(s, x) ==
    IF Contains(s, x)
    THEN CHOOSE i \in 1 .. Len(s) : s[i] = x /\ \A j \in 1 .. (i - 1) : s[j] # x
    ELSE 0

\* u64::saturating_sub
saturating_sub(a, b) == IF a >= b THEN a - b ELSE 0

Result(r, e, l) == [res |-> r, escrow |-> e, lamports |-> l]

\* system_program::transfer: fails when the payer holds less than the amount
transfer(lam, from, to, amount) ==
    IF lam[from] < amount
    THEN [res |-> "InsufficientFunds", lamports |-> lam]
    ELSE [res |-> "Ok",
          lamports |-> [[lam EXCEPT ![from] = @ - amount] EXCEPT ![to] = @ + amount]]

----------------------------------------------------------------------------
(* 64-bit integers.  A u64 or an i64 is its bit pattern, four 16-bit limbs   *)
(* with the least significant first; an i64 is the two's complement reading  *)
(* of the pattern, so the cast `as i64` keeps the limbs and changes what the *)
(* operators below make of the top bit.                                      *)

Limb == 2 ^ 16
Half == 2 ^ 15

\* the pattern of a small natural number (below 2^31)
Bits(n) == <<n % Limb, n \div Limb, 0, 0>>

\* the number a pattern stands for, when it is a small natural number
Small(b) == b[1] + b[2] * Limb

\* u64 as i64
as_i64(b) == b

IsNegative(b) == b[4] >= Half

\* a < b for two i64
SignedLess(a, b) ==
    LET ka == <<(a[4] + Half) % Limb, a[3], a[2], a[1]>>
        kb == <<(b[4] + Half) % Limb, b[3], b[2], b[1]>>
    IN \E i \in 1 .. 4 : ka[i] < kb[i] /\ \A j \in 1 .. (i - 1) : ka[j] = kb[j]

\* the exact product of an unsigned pattern and a small factor: five limbs
MulLimbs(b, k) ==
    LET p1 == b[1] * k
        p2 == b[2] * k + p1 \div Limb
        p3 == b[3] * k + p2 \div Limb
        p4 == b[4] * k + p3 \div Limb
    IN <<p1 % Limb, p2 % Limb, p3 % Limb, p4 % Limb, p4 \div Limb>>

\* the exact sum of five limbs and four limbs: five limbs
AddLimbs(a, b) ==
    LET s1 == a[1] + b[1]
        s2 == a[2] + b[2] + s1 \div Limb
        s3 == a[3] + b[3] + s2 \div Limb
        s4 == a[4] + b[4] + s3 \div Limb
        s5 == a[5] + s4 \div Limb
    IN <<s1 % Limb, s2 % Limb, s3 % Limb, s4 % Limb, s5>>

Low64(x) == <<x[1], x[2], x[3], x[4]>>

\* the magnitude of a negative i64: 2^64 minus its pattern
Magnitude(b) ==
    Low64(AddLimbs(<<Limb - 1 - b[1], Limb - 1 - b[2], Limb - 1 - b[3], Limb - 1 - b[4], 0>>,
                   Bits(1)))

\* i64 * k (k small and positive): the wrapped product, and whether the exact
\* product is outside the i64 range
wrapping_mul(b, k) == Low64(MulLimbs(b, k))

mul_overflows(b, k) ==
    IF ~IsNegative(b)
    THEN LET p == MulLimbs(b, k) IN p[5] > 0 \/ p[4] >= Half
    ELSE LET p == MulLimbs(Magnitude(b), k) IN
            \/ p[5] > 0
            \/ p[4] > Half
            \/ p[4] = Half /\ (p[1] > 0 \/ p[2] > 0 \/ p[3] > 0)

\* i64 + i64: the wrapped sum, and whether the exact sum is outside the range
wrapping_add(a, b) == Low64(AddLimbs(<<a[1], a[2], a[3], a[4], 0>>, b))

add_overflows(a, b) ==
    /\ IsNegative(a) = IsNegative(b)
    /\ IsNegative(wrapping_add(a, b)) # IsNegative(a)

\* clock.unix_timestamp + (fill_deadline_hours as i64 * 3600).  An overflow
\* panics in a build with overflow checks and wraps in a build without.
fill_deadline_of(now, fill_deadline_hours, overflow_checks) ==
    LET hours   == as_i64(fill_deadline_hours)
        seconds == wrapping_mul(hours, SecondsPerHour)
        panics  == \/ mul_overflows(hours, SecondsPerHour)
                   \/ add_overflows(now, seconds)
    IN [panic |-> overflow_checks /\ panics, value |-> wrapping_add(now, seconds)]

\* the part of create_game that decides fill_deadline, for any u64 hours
create_game_deadline(fill_deadline_hours, now, overflow_checks) ==
    IF ~(fill_deadline_hours # Bits(0))
    THEN [res |-> "InvalidFillDeadline", escrow |-> None]
    ELSE LET d == fill_deadline_of(now, fill_deadline_hours, overflow_checks) IN
        IF d.panic THEN [res |-> "Panic", escrow |-> None]
        ELSE [res |-> "Ok", escrow |-> [created_at |-> now, fill_deadline |-> d.value]]

----------------------------------------------------------------------------
(* Instructions *)

create_game(operator, game_id, buy_in, max_players, fill_deadline_hours, seed, now) ==
    IF ~(Len(game_id) <= MAX_GAME_ID_LEN) THEN [res |-> "GameIdTooLong", escrow |-> None]
    ELSE IF ~(max_players > 0 /\ max_players <= MAX_PLAYERS)
        THEN [res |-> "InvalidMaxPlayers", escrow |-> None]
    ELSE IF ~(buy_in > 0) THEN [res |-> "InvalidBuyIn", escrow |-> None]
    ELSE IF ~(fill_deadline_hours > 0) THEN [res |-> "InvalidFillDeadline", escrow |-> None]
    ELSE [res |-> "Ok",
          escrow |-> [game_id         |-> game_id,
                      operator        |-> operator,
                      status          |-> "Open",
                      buy_in          |-> buy_in,
                      max_players     |-> max_players,
                      current_players |-> 0,
                      players         |-> <<>>,
                      seed            |-> seed,
                      winner          |-> None,
                      proof_hash      |-> None,
                      created_at      |-> now,
                      fill_deadline   |->
                          Small(fill_deadline_of(Bits(now), Bits(fill_deadline_hours),
                                                 TRUE).value),
                      started_at      |-> None,
                      bump            |-> BumpValue,
                      refunded        |-> <<>>]]

\* join_game registering the player before the buy-in transfer has succeeded
join_game_push_first(e, lam, player, now) ==
    IF ~(e.status = "Open") THEN Result("GameNotOpen", e, lam)
    ELSE IF ~(e.current_players < e.max_players) THEN Result("GameFull", e, lam)
    ELSE IF ~(now < e.fill_deadline) THEN Result("DeadlinePassed", e, lam)
    ELSE IF ~(player # e.operator) THEN Result("OperatorCannotPlay", e, lam)
    ELSE IF Contains(e.players, player) THEN Result("AlreadyJoined", e, lam)
    ELSE LET t == transfer(lam, player, EscrowKey, e.buy_in)
             e1 == [e EXCEPT !.players = Append(@, player),
                             !.refunded = Append(@, FALSE),
                             !.current_players = @ + 1]
             e2 == IF e1.current_players = e1.max_players
                   THEN [e1 EXCEPT !.status = "Filled"]
                   ELSE e1
         IN Result(t.res, e2, t.lamports)

\* join_game accepting a join at the deadline itself (<= for <)
join_game_at_deadline(e, lam, player, now) ==
    IF ~(e.status = "Open") THEN Result("GameNotOpen", e, lam)
    ELSE IF ~(e.current_players < e.max_players) THEN Result("GameFull", e, lam)
    ELSE IF ~(now <= e.fill_deadline) THEN Result("DeadlinePassed", e, lam)
    ELSE IF ~(player # e.operator) THEN Result("OperatorCannotPlay", e, lam)
    ELSE IF Contains(e.players, player) THEN Result("AlreadyJoined", e, lam)
    ELSE LET t == transfer(lam, player, EscrowKey, e.buy_in) IN
        IF t.res # "Ok" THEN Result(t.res, e, lam)
        ELSE LET e1 == [e EXCEPT !.players = Append(@, player),
                                 !.refunded = Append(@, FALSE),
                                 !.current_players = @ + 1]
                 e2 == IF e1.current_players = e1.max_players
                       THEN [e1 EXCEPT !.status = "Filled"]
                       ELSE e1
             IN Result("Ok", e2, t.lamports)

\* join_game forgetting the entry of `refunded` for the new player
join_game_no_refunded_push(e, lam, player, now) ==
    IF ~(e.status = "Open") THEN Result("GameNotOpen", e, lam)
    ELSE IF ~(e.current_players < e.max_players) THEN Result("GameFull", e, lam)
    ELSE IF ~(now < e.fill_deadline) THEN Result("DeadlinePassed", e, lam)
    ELSE IF ~(player # e.operator) THEN Result("OperatorCannotPlay", e, lam)
    ELSE IF Contains(e.players, player) THEN Result("AlreadyJoined", e, lam)
    ELSE LET t == transfer(lam, player, EscrowKey, e.buy_in) IN
        IF t.res # "Ok" THEN Result(t.res, e, lam)
        ELSE LET e1 == [e EXCEPT !.players = Append(@, player),
                                 !.current_players = @ + 1]
                 e2 == IF e1.current_players = e1.max_players
                       THEN [e1 EXCEPT !.status = "Filled"]
                       ELSE e1
             IN Result("Ok", e2, t.lamports)

\* join_game without the check that the caller has not joined yet
join_game_no_dup_check(e, lam, player, now) ==
    IF ~(e.status = "Open") THEN Result("GameNotOpen", e, lam)
    ELSE IF ~(e.current_players < e.max_players) THEN Result("GameFull", e, lam)
    ELSE IF ~(now < e.fill_deadline) THEN Result("DeadlinePassed", e, lam)
    ELSE IF ~(player # e.operator) THEN Result("OperatorCannotPlay", e, lam)
    ELSE LET t == transfer(lam, player, EscrowKey, e.buy_in) IN
        IF t.res # "Ok" THEN Result(t.res, e, lam)
        ELSE LET e1 == [e EXCEPT !.players = Append(@, player),
                                 !.refunded = Append(@, FALSE),
                                 !.current_players = @ + 1]
                 e2 == IF e1.current_players = e1.max_players
                       THEN [e1 EXCEPT !.status = "Filled"]
                       ELSE e1
             IN Result("Ok", e2, t.lamports)

\* join_game without the check that the caller is not the operator
join_game_operator_plays(e, lam, player, now) ==
    IF ~(e.status = "Open") THEN Result("GameNotOpen", e, lam)
    ELSE IF ~(e.current_players < e.max_players) THEN Result("GameFull", e, lam)
    ELSE IF ~(now < e.fill_deadline) THEN Result("DeadlinePassed", e, lam)
    ELSE IF Contains(e.players, player) THEN Result("AlreadyJoined", e, lam)
    ELSE LET t == transfer(lam, player, EscrowKey, e.buy_in) IN
        IF t.res # "Ok" THEN Result(t.res, e, lam)
        ELSE LET e1 == [e EXCEPT !.players = Append(@, player),
                                 !.refunded = Append(@, FALSE),
                                 !.current_players = @ + 1]
                 e2 == IF e1.current_players = e1.max_players
                       THEN [e1 EXCEPT !.status = "Filled"]
                       ELSE e1
             IN Result("Ok", e2, t.lamports)

\* join_game leaving the status Open when the last seat is taken
join_game_never_filled(e, lam, player, now) ==
    IF ~(e.status = "Open") THEN Result("GameNotOpen", e, lam)
    ELSE IF ~(e.current_players < e.max_players) THEN Result("GameFull", e, lam)
    ELSE IF ~(now < e.fill_deadline) THEN Result("DeadlinePassed", e, lam)
    ELSE IF ~(player # e.operator) THEN Result("OperatorCannotPlay", e, lam)
    ELSE IF Contains(e.players, player) THEN Result("AlreadyJoined", e, lam)
    ELSE LET t == transfer(lam, player, EscrowKey, e.buy_in) IN
        IF t.res # "Ok" THEN Result(t.res, e, lam)
        ELSE Result("Ok",
                    [e EXCEPT !.players = Append(@, player),
                              !.refunded = Append(@, FALSE),
                              !.current_players = @ + 1],
                    t.lamports)

join_game(e, lam, player, now) ==
    IF ~(e.status = "Open") THEN Result("GameNotOpen", e, lam)
    ELSE IF ~(e.current_players < e.max_players) THEN Result("GameFull", e, lam)
    ELSE IF ~(now < e.fill_deadline) THEN Result("DeadlinePassed", e, lam)
    ELSE IF ~(player # e.operator) THEN Result("OperatorCannotPlay", e, lam)
    ELSE IF Contains(e.players, player) THEN Result("AlreadyJoined", e, lam)
    ELSE LET t == transfer(lam, player, EscrowKey, e.buy_in) IN
        IF t.res # "Ok" THEN Result(t.res, e, lam)
        ELSE LET e1 == [e EXCEPT !.players = Append(@, player),
                                 !.refunded = Append(@, FALSE),
                                 !.current_players = @ + 1]
                 e2 == IF e1.current_players = e1.max_players
                       THEN [e1 EXCEPT !.status = "Filled"]
                       ELSE e1
             IN Result("Ok", e2, t.lamports)

\* start_game without the operator check
start_game_any_caller(e, lam, operator, now) ==
    IF ~(e.status = "Filled") THEN Result("GameNotFilled", e, lam)
    ELSE Result("Ok", [e EXCEPT !.status = "Active", !.started_at = Some(now)], lam)

start_game(e, lam, operator, now) ==
    IF ~(e.status = "Filled") THEN Result("GameNotFilled", e, lam)
    ELSE IF ~(operator = e.operator) THEN Result("UnauthorizedOperator", e, lam)
    ELSE Result("Ok", [e EXCEPT !.status = "Active", !.started_at = Some(now)], lam)

\* declare_winner leaving the status Active after the payout
declare_winner_stays_active(e, lam, operator, winner, proof_hash, winner_account, now) ==
    IF ~(e.status = "Active") THEN Result("GameNotActive", e, lam)
    ELSE IF ~(operator = e.operator) THEN Result("UnauthorizedOperator", e, lam)
    ELSE IF ~Contains(e.players, winner) THEN Result("WinnerNotPlayer", e, lam)
    ELSE IF e.started_at # None /\ ~(now >= e.started_at[1] + MINIMUM_GAME_TIME)
        THEN Result("TooEarlyForWinner", e, lam)
    ELSE LET transfer_amount == saturating_sub(lam[EscrowKey], RentExempt)
             lam1 == IF transfer_amount > 0
                     THEN [lam EXCEPT ![EscrowKey] = @ - transfer_amount]
                     ELSE lam
             lam2 == IF transfer_amount > 0
                     THEN [lam1 EXCEPT ![winner_account] = @ + transfer_amount]
                     ELSE lam1
         IN Result("Ok",
                   [e EXCEPT !.winner = Some(winner), !.proof_hash = Some(proof_hash)],
                   lam2)

\* declare_winner without the minimum game time check
declare_winner_no_min_time(e, lam, operator, winner, proof_hash, winner_account, now) ==
    IF ~(e.status = "Active") THEN Result("GameNotActive", e, lam)
    ELSE IF ~(operator = e.operator) THEN Result("UnauthorizedOperator", e, lam)
    ELSE IF ~Contains(e.players, winner) THEN Result("WinnerNotPlayer", e, lam)
    ELSE LET transfer_amount == saturating_sub(lam[EscrowKey], RentExempt)
             lam1 == IF transfer_amount > 0
                     THEN [lam EXCEPT ![EscrowKey] = @ - transfer_amount]
                     ELSE lam
             lam2 == IF transfer_amount > 0
                     THEN [lam1 EXCEPT ![winner_account] = @ + transfer_amount]
                     ELSE lam1
         IN Result("Ok",
                   [e EXCEPT !.winner = Some(winner),
                             !.proof_hash = Some(proof_hash),
                             !.status = "Complete"],
                   lam2)

\* declare_winner without the check that the winner is one of the players
declare_winner_any_winner(e, lam, operator, winner, proof_hash, winner_account, now) ==
    IF ~(e.status = "Active") THEN Result("GameNotActive", e, lam)
    ELSE IF ~(operator = e.operator) THEN Result("UnauthorizedOperator", e, lam)
    ELSE IF e.started_at # None /\ ~(now >= e.started_at[1] + MINIMUM_GAME_TIME)
        THEN Result("TooEarlyForWinner", e, lam)
    ELSE LET transfer_amount == saturating_sub(lam[EscrowKey], RentExempt)
             lam1 == IF transfer_amount > 0
                     THEN [lam EXCEPT ![EscrowKey] = @ - transfer_amount]
                     ELSE lam
             lam2 == IF transfer_amount > 0
                     THEN [lam1 EXCEPT ![winner_account] = @ + transfer_amount]
                     ELSE lam1
         IN Result("Ok",
                   [e EXCEPT !.winner = Some(winner),
                             !.proof_hash = Some(proof_hash),
                             !.status = "Complete"],
                   lam2)

\* winner is the instruction argument, winner_account the account passed as
\* ctx.accounts.winner; the accounts struct puts no constraint between them
declare_winner(e, lam, operator, winner, proof_hash, winner_account, now) ==
    IF ~(e.status = "Active") THEN Result("GameNotActive", e, lam)
    ELSE IF ~(operator = e.operator) THEN Result("UnauthorizedOperator", e, lam)
    ELSE IF ~Contains(e.players, winner) THEN Result("WinnerNotPlayer", e, lam)
    ELSE IF e.started_at # None /\ ~(now >= e.started_at[1] + MINIMUM_GAME_TIME)
        THEN Result("TooEarlyForWinner", e, lam)
    ELSE LET transfer_amount == saturating_sub(lam[EscrowKey], RentExempt)
             lam1 == IF transfer_amount > 0
                     THEN [lam EXCEPT ![EscrowKey] = @ - transfer_amount]
                     ELSE lam
             lam2 == IF transfer_amount > 0
                     THEN [lam1 EXCEPT ![winner_account] = @ + transfer_amount]
                     ELSE lam1
         IN Result("Ok",
                   [e EXCEPT !.winner = Some(winner),
                             !.proof_hash = Some(proof_hash),
                             !.status = "Complete"],
                   lam2)

\* cancel_game cancelling a Filled game without looking at the deadline
cancel_game_filled_anytime(e, lam, operator, now) ==
    IF ~(operator = e.operator) THEN Result("UnauthorizedOperator", e, lam)
    ELSE LET can_cancel == CASE e.status = "Open"   -> TRUE
                             [] e.status = "Filled" -> TRUE
                             [] e.status = "Paused" -> TRUE
                             [] OTHER               -> FALSE
         IN IF ~can_cancel THEN Result("CannotCancel", e, lam)
            ELSE Result("Ok", [e EXCEPT !.status = "Cancelled"], lam)

\* cancel_game cancelling a running game as well
cancel_game_active_too(e, lam, operator, now) ==
    IF ~(operator = e.operator) THEN Result("UnauthorizedOperator", e, lam)
    ELSE LET can_cancel == CASE e.status = "Open"   -> TRUE
                             [] e.status = "Filled" -> now > e.fill_deadline
                             [] e.status = "Paused" -> TRUE
                             [] e.status = "Active" -> TRUE
                             [] OTHER               -> FALSE
         IN IF ~can_cancel THEN Result("CannotCancel", e, lam)
            ELSE Result("Ok", [e EXCEPT !.status = "Cancelled"], lam)

cancel_game(e, lam, operator, now) ==
    IF ~(operator = e.operator) THEN Result("UnauthorizedOperator", e, lam)
    ELSE LET can_cancel == CASE e.status = "Open"   -> TRUE
                             [] e.status = "Filled" -> now > e.fill_deadline
                             [] e.status = "Paused" -> TRUE
                             [] OTHER               -> FALSE
         IN IF ~can_cancel THEN Result("CannotCancel", e, lam)
            ELSE Result("Ok", [e EXCEPT !.status = "Cancelled"], lam)

\* claim_refund without the check of the refunded flag
claim_refund_no_flag_check(e, lam, player) ==
    IF ~(e.status = "Cancelled") THEN Result("GameNotCancelled", e, lam)
    ELSE LET player_index == Position(e.players, player) IN
        IF player_index = 0 THEN Result("PlayerNotInGame", e, lam)
        ELSE IF lam[EscrowKey] < e.buy_in THEN Result("LamportUnderflow", e, lam)
        ELSE LET lam1 == [lam EXCEPT ![EscrowKey] = @ - e.buy_in]
                 lam2 == [lam1 EXCEPT ![player] = @ + e.buy_in]
             IN Result("Ok", [e EXCEPT !.refunded[player_index] = TRUE], lam2)

\* claim_refund without the check that the game is Cancelled
claim_refund_any_status(e, lam, player) ==
    LET player_index == Position(e.players, player) IN
        IF player_index = 0 THEN Result("PlayerNotInGame", e, lam)
        ELSE IF ~(~e.refunded[player_index]) THEN Result("AlreadyRefunded", e, lam)
        ELSE IF lam[EscrowKey] < e.buy_in THEN Result("LamportUnderflow", e, lam)
        ELSE LET lam1 == [lam EXCEPT ![EscrowKey] = @ - e.buy_in]
                 lam2 == [lam1 EXCEPT ![player] = @ + e.buy_in]
             IN Result("Ok", [e EXCEPT !.refunded[player_index] = TRUE], lam2)

\* claim_refund paying the refund without setting the refunded flag
claim_refund_keeps_flag(e, lam, player) ==
    IF ~(e.status = "Cancelled") THEN Result("GameNotCancelled", e, lam)
    ELSE LET player_index == Position(e.players, player) IN
        IF player_index = 0 THEN Result("PlayerNotInGame", e, lam)
        ELSE IF ~(~e.refunded[player_index]) THEN Result("AlreadyRefunded", e, lam)
        ELSE IF lam[EscrowKey] < e.buy_in THEN Result("LamportUnderflow", e, lam)
        ELSE LET lam1 == [lam EXCEPT ![EscrowKey] = @ - e.buy_in]
                 lam2 == [lam1 EXCEPT ![player] = @ + e.buy_in]
             IN Result("Ok", e, lam2)

\* claim_refund serving the participants in the order they joined
claim_refund_in_order(e, lam, player) ==
    IF ~(e.status = "Cancelled") THEN Result("GameNotCancelled", e, lam)
    ELSE LET player_index == Position(e.players, player) IN
        IF player_index = 0 THEN Result("PlayerNotInGame", e, lam)
        ELSE IF ~(~e.refunded[player_index]) THEN Result("AlreadyRefunded", e, lam)
        ELSE IF \E j \in 1 .. (player_index - 1) : ~e.refunded[j]
            THEN Result("RefundNotAvailable", e, lam)
        ELSE IF lam[EscrowKey] < e.buy_in THEN Result("LamportUnderflow", e, lam)
        ELSE LET lam1 == [lam EXCEPT ![EscrowKey] = @ - e.buy_in]
                 lam2 == [lam1 EXCEPT ![player] = @ + e.buy_in]
             IN Result("Ok", [e EXCEPT !.refunded[player_index] = TRUE], lam2)

claim_refund(e, lam, player) ==
    IF ~(e.status = "Cancelled") THEN Result("GameNotCancelled", e, lam)
    ELSE LET player_index == Position(e.players, player) IN
        IF player_index = 0 THEN Result("PlayerNotInGame", e, lam)
        ELSE IF ~(~e.refunded[player_index]) THEN Result("AlreadyRefunded", e, lam)
        ELSE IF lam[EscrowKey] < e.buy_in THEN Result("LamportUnderflow", e, lam)
        ELSE LET lam1 == [lam EXCEPT ![EscrowKey] = @ - e.buy_in]
                 lam2 == [lam1 EXCEPT ![player] = @ + e.buy_in]
             IN Result("Ok", [e EXCEPT !.refunded[player_index] = TRUE], lam2)

emergency_halt(e, lam, operator) ==
    IF ~(e.status = "Active") THEN Result("GameNotActive", e, lam)
    ELSE IF ~(operator = e.operator) THEN Result("UnauthorizedOperator", e, lam)
    ELSE Result("Ok", [e EXCEPT !.status = "Paused"], lam)

\* resume_game forgetting when the game was started
resume_game_clears_start(e, lam, operator) ==
    IF ~(e.status = "Paused") THEN Result("GameNotPaused", e, lam)
    ELSE IF ~(operator = e.operator) THEN Result("UnauthorizedOperator", e, lam)
    ELSE Result("Ok", [e EXCEPT !.status = "Active", !.started_at = None], lam)

resume_game(e, lam, operator) ==
    IF ~(e.status = "Paused") THEN Result("GameNotPaused", e, lam)
    ELSE IF ~(operator = e.operator) THEN Result("UnauthorizedOperator", e, lam)
    ELSE Result("Ok", [e EXCEPT !.status = "Active"], lam)

----------------------------------------------------------------------------
(* The state machine *)

Call(op, res) == [op |-> op, res |-> res]

NoRefunds == [p \in Signers |-> 0]

Init ==
    \E buy_in \in BuyIns, max_players \in (0 .. MaxCap) \cup {MAX_PLAYERS + 1},
       hours \in 0 .. MaxHours :
        LET r == create_game(OperatorKey, GameId, buy_in, max_players, hours, SeedValue, 0) IN
            /\ r.res = "Ok"
            /\ escrow = r.escrow
            /\ lamports = [a \in Keys |-> StartLamports(a)]
            /\ clock = 0
            /\ last = Call("create_game", r.res)
            /\ ledger = [deposited |-> 0, settled |-> 0, paid_out |-> 0,
                         paid_winner |-> 0, refunds |-> NoRefunds]

JoinGame ==
    \E player \in Signers :
        LET r == join_game(escrow, lamports, player, clock) IN
            /\ escrow' = r.escrow
            /\ lamports' = r.lamports
            /\ last' = Call("join_game", r.res)
            /\ ledger' = [ledger EXCEPT
                            !.deposited = @ + (lamports[player] - r.lamports[player])]
            /\ UNCHANGED clock

StartGame ==
    \E operator \in Signers :
        LET r == start_game(escrow, lamports, operator, clock) IN
            /\ escrow' = r.escrow
            /\ lamports' = r.lamports
            /\ last' = Call("start_game", r.res)
            /\ UNCHANGED <<clock, ledger>>

DeclareWinner ==
    \E operator \in Signers, winner \in Signers, proof_hash \in ProofHashes :
      \E winner_account \in WinnerAccounts(winner) :
        LET r == declare_winner(escrow, lamports, operator, winner, proof_hash,
                                winner_account, clock)
        IN  /\ escrow' = r.escrow
            /\ lamports' = r.lamports
            /\ last' = Call("declare_winner", r.res)
            /\ ledger' = [ledger EXCEPT
                            !.settled = @ + (IF r.res = "Ok" THEN 1 ELSE 0),
                            !.paid_out = @ + (lamports[EscrowKey] - r.lamports[EscrowKey]),
                            !.paid_winner = @ + (r.lamports[winner] - lamports[winner])]
            /\ UNCHANGED clock

CancelGame ==
    \E operator \in Signers :
        LET r == cancel_game(escrow, lamports, operator, clock) IN
            /\ escrow' = r.escrow
            /\ lamports' = r.lamports
            /\ last' = Call("cancel_game", r.res)
            /\ UNCHANGED <<clock, ledger>>

ClaimRefundBy(player) ==
    LET r == claim_refund(escrow, lamports, player) IN
        /\ escrow' = r.escrow
        /\ lamports' = r.lamports
        /\ last' = Call("claim_refund", r.res)
        /\ ledger' = [ledger EXCEPT
                        !.refunds[player] = @ + (r.lamports[player] - lamports[player])]
        /\ UNCHANGED clock

ClaimRefund == \E player \in Signers : ClaimRefundBy(player)

EmergencyHalt ==
    \E operator \in Signers :
        LET r == emergency_halt(escrow, lamports, operator) IN
            /\ escrow' = r.escrow
            /\ lamports' = r.lamports
            /\ last' = Call("emergency_halt", r.res)
            /\ UNCHANGED <<clock, ledger>>

ResumeGame ==
    \E operator \in Signers :
        LET r == resume_game(escrow, lamports, operator) IN
            /\ escrow' = r.escrow
            /\ lamports' = r.lamports
            /\ last' = Call("resume_game", r.res)
            /\ UNCHANGED <<clock, ledger>>

\* the clock is read once per instruction and never runs backwards
Tick ==
    /\ \E t \in ClockValues(escrow) : t > clock /\ clock' = t
    /\ last' = Call("tick", "Ok")
    /\ UNCHANGED <<escrow, lamports, ledger>>

Next ==
    \/ JoinGame
    \/ StartGame
    \/ DeclareWinner
    \/ CancelGame
    \/ ClaimRefund
    \/ EmergencyHalt
    \/ ResumeGame
    \/ Tick

Spec == Init /\ [][Next]_vars

\* create_game on its own, for fill_deadline_hours over the whole u64 range
HoursWide ==
    {<<a, b, c, d>> : a \in {0, 1, 24, Limb - 1}, b \in {0, Limb - 1}, c \in {0, Limb - 1},
                      d \in {0, 8, 9, Half - 1, Half, Limb - 1}}

NowWide == {Bits(0), Bits(1762000000)}

WideInit ==
    \E hours \in HoursWide, now \in NowWide, overflow_checks \in BOOLEAN :
        /\ escrow = None
        /\ lamports = [a \in Keys |-> StartLamports(a)]
        /\ clock = now
        /\ last = Call("none", "Ok")
        /\ ledger = [hours |-> hours, overflow_checks |-> overflow_checks]

CreateGameWide ==
    /\ last.op = "none"
    /\ LET r == create_game_deadline(ledger.hours, clock, ledger.overflow_checks) IN
           /\ escrow' = r.escrow
           /\ last' = Call("create_game", r.res)
    /\ UNCHANGED <<lamports, clock, ledger>>

WideNext == CreateGameWide

WideSpec == WideInit /\ [][WideNext]_vars

\* every signer that keeps asking for its refund is served in the end: the
\* runtime executes each submitted instruction
FairSpec == Spec /\ \A player \in Signers : WF_vars(ClaimRefundBy(player))

----------------------------------------------------------------------------
(* Properties *)

Payout == saturating_sub(lamports[EscrowKey], RentExempt)

AllRefunded == \A i \in 1 .. Len(escrow.refunded) : escrow.refunded[i]

Terminal ==
    \/ escrow.status = "Complete"
    \/ escrow.status = "Cancelled" /\ AllRefunded

RECURSIVE SumOver(_, _)
SumOver(f, S) ==
    IF S = {} THEN 0 ELSE LET x == CHOOSE y \in S : TRUE IN f[x] + SumOver(f, S \ {x})

TotalRefunded == SumOver(ledger.refunds, Signers)

\* C1: a successful declare_winner with a positive payout credits the payout
\* to the account of the identity it records in `winner`, and to no other
\* account.
C1_PayoutCreditsDeclaredWinner ==
    [][(last'.op = "declare_winner" /\ last'.res = "Ok" /\ Payout > 0)
        => /\ lamports'[escrow'.winner[1]] = lamports[escrow'.winner[1]] + Payout
           /\ \A a \in Keys \ {EscrowKey, escrow'.winner[1]} : lamports'[a] = lamports[a]]_vars

\* C2: in every terminal state (Complete, or Cancelled with every participant
\* refunded) the amount deposited through join_game equals the amount paid to
\* the winner by declare_winner plus the amount paid back by claim_refund, and
\* the escrow holds nothing above its reserve.
C2_ConservationOfFunds ==
    Terminal =>
        /\ ledger.deposited = ledger.paid_winner + TotalRefunded
        /\ lamports[EscrowKey] - RentExempt = 0

\* C3: every change of status is one of the edges Open->Filled (a join_game
\* that fills the game), Filled->Active (start_game), Active->Complete
\* (declare_winner), Active->Paused (emergency_halt), Paused->Active
\* (resume_game), Open->Cancelled, Paused->Cancelled and, only with the clock
\* past fill_deadline, Filled->Cancelled (cancel_game); no edge leaves Complete
\* or Cancelled.
C3_StatusEdges ==
    [][escrow'.status # escrow.status =>
        LET from == escrow.status
            to   == escrow'.status
            op   == last'.op
        IN  \/ /\ from = "Open" /\ to = "Filled" /\ op = "join_game"
               /\ escrow'.current_players = escrow'.max_players
            \/ from = "Filled" /\ to = "Active" /\ op = "start_game"
            \/ from = "Active" /\ to = "Complete" /\ op = "declare_winner"
            \/ from = "Active" /\ to = "Paused" /\ op = "emergency_halt"
            \/ from = "Paused" /\ to = "Active" /\ op = "resume_game"
            \/ from = "Open" /\ to = "Cancelled" /\ op = "cancel_game"
            \/ from = "Paused" /\ to = "Cancelled" /\ op = "cancel_game"
            \/ /\ from = "Filled" /\ to = "Cancelled" /\ op = "cancel_game"
               /\ clock > escrow.fill_deadline]_vars

\* a Filled game that was cancelled without ever having been started
C3_Witness ==
    /\ escrow.status = "Cancelled"
    /\ escrow.current_players = escrow.max_players
    /\ escrow.started_at = None
    /\ last.op = "cancel_game"

\* C4: an instruction that is rejected, the failed buy-in transfer of a caller
\* with too small a balance included, leaves every field of the record and
\* every balance as they were.
C4_RejectedLeavesStateUnchanged ==
    [][(last'.op # "tick" /\ last'.res # "Ok")
        => (escrow' = escrow /\ lamports' = lamports /\ ledger' = ledger)]_vars

\* a join_game rejected by the transfer: the caller could not pay the buy-in
C4_Witness ==
    /\ last.op = "join_game"
    /\ last.res = "InsufficientFunds"
    /\ escrow.status = "Open"

\* C5: declare_winner succeeds at most once, and every declare_winner after a
\* successful one fails with GameNotActive.
C5_AtMostOnceSettlement ==
    /\ [](ledger.settled <= 1)
    /\ [][(ledger.settled >= 1 /\ last'.op = "declare_winner")
            => (last'.res = "GameNotActive" /\ ledger'.settled = ledger.settled)]_vars

\* a declare_winner rejected after the game was settled
C5_Witness ==
    /\ ledger.settled = 1
    /\ last.op = "declare_winner"
    /\ last.res = "GameNotActive"

\* C6: for every participant of a Cancelled game, two claim_refund calls pay
\* that participant buy_in once in total: the first succeeds and the second
\* fails with AlreadyRefunded and moves no funds.
C6_RefundIdempotence ==
    escrow.status = "Cancelled" =>
        \A i \in 1 .. Len(escrow.players) :
            LET p     == escrow.players[i]
                first == claim_refund(escrow, lamports, p)
                again == claim_refund(first.escrow, first.lamports, p)
            IN  /\ ledger.refunds[p] = (IF escrow.refunded[i] THEN escrow.buy_in ELSE 0)
                /\ escrow.refunded[i] =>
                       first = Result("AlreadyRefunded", escrow, lamports)
                /\ ~escrow.refunded[i] =>
                       /\ first.res = "Ok"
                       /\ first.lamports[p] = lamports[p] + escrow.buy_in
                       /\ first.lamports[EscrowKey] = lamports[EscrowKey] - escrow.buy_in
                       /\ again = Result("AlreadyRefunded", first.escrow, first.lamports)

\* a participant who was refunded asked again and was turned away
C6_Witness ==
    /\ escrow.status = "Cancelled"
    /\ last.op = "claim_refund"
    /\ last.res = "AlreadyRefunded"
    /\ \E p \in Signers : ledger.refunds[p] = escrow.buy_in

\* C7 as stated: a join_game made with clock >= fill_deadline fails with
\* DeadlinePassed in every reachable state.
C7_DeadlinePassedInEveryState ==
    [][(last'.op = "join_game" /\ clock >= escrow.fill_deadline)
        => last'.res = "DeadlinePassed"]_vars

\* C7 as amended: a join_game made with clock >= fill_deadline always fails and
\* changes nothing; the error is DeadlinePassed when the status is Open,
\* whatever the remaining capacity and the caller, and GameNotOpen otherwise.
C7_DeadlineGating ==
    [][(last'.op = "join_game" /\ clock >= escrow.fill_deadline)
        => /\ last'.res = (IF escrow.status = "Open" THEN "DeadlinePassed" ELSE "GameNotOpen")
           /\ escrow' = escrow
           /\ lamports' = lamports]_vars

\* a join rejected for the deadline while the game still had room
C7_Witness ==
    /\ last.op = "join_game"
    /\ last.res = "DeadlinePassed"
    /\ clock >= escrow.fill_deadline
    /\ escrow.current_players < escrow.max_players

\* C8 as stated: in every reachable state start_game by a caller other than the
\* operator fails with UnauthorizedOperator and leaves the record unchanged.
C8_UnauthorizedInEveryState ==
    \A caller \in Signers \ {escrow.operator} :
        start_game(escrow, lamports, caller, clock)
            = Result("UnauthorizedOperator", escrow, lamports)

\* C8 as amended: in every reachable state start_game by a caller other than
\* the operator fails and leaves the record unchanged; the error is
\* UnauthorizedOperator when the status is Filled and GameNotFilled otherwise.
C8_UnauthorizedStart ==
    \A caller \in Signers \ {escrow.operator} :
        start_game(escrow, lamports, caller, clock)
            = Result(IF escrow.status = "Filled" THEN "UnauthorizedOperator"
                     ELSE "GameNotFilled",
                     escrow, lamports)

\* a start_game on a Filled game rejected for its caller
C8_Witness ==
    /\ escrow.status = "Filled"
    /\ last.op = "start_game"
    /\ last.res = "UnauthorizedOperator"

\* C9: a Complete record was completed at started_at + MINIMUM_GAME_TIME or
\* later, and on an Active game a declare_winner by the operator with a winner
\* among the players and clock < started_at + MINIMUM_GAME_TIME fails with
\* TooEarlyForWinner (halted and resumed in between or not).
C9_NoPrematureWinner ==
    /\ escrow.status \in {"Active", "Paused", "Complete"} => escrow.started_at # None
    /\ escrow.status = "Complete" =>
           clock >= escrow.started_at[1] + MINIMUM_GAME_TIME
    /\ (escrow.status = "Active" /\ clock < escrow.started_at[1] + MINIMUM_GAME_TIME) =>
           \A i \in 1 .. Len(escrow.players), proof_hash \in ProofHashes, account \in Keys :
               declare_winner(escrow, lamports, escrow.operator, escrow.players[i],
                              proof_hash, account, clock)
                   = Result("TooEarlyForWinner", escrow, lamports)

\* a declare_winner turned away as too early
C9_Witness ==
    /\ escrow.status = "Active"
    /\ last.op = "declare_winner"
    /\ last.res = "TooEarlyForWinner"
    /\ clock < escrow.started_at[1] + MINIMUM_GAME_TIME

\* C10: cancel_game succeeds only for the operator and only from Open, from
\* Paused, or from Filled with clock > fill_deadline; when it succeeds it sets
\* status to Cancelled and changes nothing else, no balance included.
C10_CancelGame ==
    \A caller \in Signers :
        LET r == cancel_game(escrow, lamports, caller, clock) IN
            /\ r.res = "Ok" =>
                   /\ caller = escrow.operator
                   /\ \/ escrow.status \in {"Open", "Paused"}
                      \/ escrow.status = "Filled" /\ clock > escrow.fill_deadline
                   /\ r.escrow = [escrow EXCEPT !.status = "Cancelled"]
                   /\ r.lamports = lamports
            /\ r.res # "Ok" => (r.escrow = escrow /\ r.lamports = lamports)

\* a game with a player in it cancelled: the buy-in is still in the escrow
C10_Witness ==
    /\ escrow.status = "Cancelled"
    /\ last.op = "cancel_game"
    /\ last.res = "Ok"
    /\ escrow.current_players > 0
    /\ lamports[EscrowKey] = RentExempt + escrow.buy_in * escrow.current_players

\* the join_game error a caller gets who passes the checks of capacity
\* but is turned away for who it is: the status and the deadline are checked
\* before the caller
JoinRejection(err) ==
    IF escrow.status # "Open" THEN "GameNotOpen"
    ELSE IF ~(clock < escrow.fill_deadline) THEN "DeadlinePassed"
    ELSE err

NoDuplicates(s) == \A i, j \in 1 .. Len(s) : s[i] = s[j] => i = j

\* C11: current_players equals the length of `players` and of `refunded`, and
\* lies between 0 and max_players, which lies between 1 and MAX_PLAYERS.
C11_PlayerCount ==
    /\ escrow.current_players = Len(escrow.players)
    /\ escrow.current_players = Len(escrow.refunded)
    /\ 0 <= escrow.current_players
    /\ escrow.current_players <= escrow.max_players
    /\ 1 <= escrow.max_players
    /\ escrow.max_players <= MAX_PLAYERS

\* a game with all its seats taken by more than one player
C11_Witness ==
    /\ escrow.current_players = escrow.max_players
    /\ Len(escrow.players) > 1
    /\ last.op = "join_game"
    /\ last.res = "Ok"

\* C12 as stated: no identity is twice in `players`, and a join_game by a caller
\* already in `players` fails with AlreadyJoined and takes no buy-in.
C12_AlreadyJoinedInEveryState ==
    /\ NoDuplicates(escrow.players)
    /\ \A i \in 1 .. Len(escrow.players) :
           join_game(escrow, lamports, escrow.players[i], clock)
               = Result("AlreadyJoined", escrow, lamports)

\* C12 as amended: no identity is twice in `players`; a join_game by a caller
\* already in `players` fails and takes no buy-in, with AlreadyJoined when the
\* status is Open and the clock is before fill_deadline, with GameNotOpen
\* when the status is not Open, and with DeadlinePassed otherwise.
C12_NoDuplicatePlayers ==
    /\ NoDuplicates(escrow.players)
    /\ \A i \in 1 .. Len(escrow.players) :
           join_game(escrow, lamports, escrow.players[i], clock)
               = Result(JoinRejection("AlreadyJoined"), escrow, lamports)

\* a player of an Open game tried to join again
C12_Witness ==
    /\ escrow.status = "Open"
    /\ escrow.current_players > 0
    /\ last.op = "join_game"
    /\ last.res = "AlreadyJoined"

\* C13 as stated: the operator is not in `players`, and join_game by the
\* operator fails with OperatorCannotPlay in every state.
C13_OperatorCannotPlayInEveryState ==
    /\ ~Contains(escrow.players, escrow.operator)
    /\ join_game(escrow, lamports, escrow.operator, clock)
           = Result("OperatorCannotPlay", escrow, lamports)

\* C13 as amended: the operator is not in `players`; join_game by the operator
\* fails in every state and changes nothing, with OperatorCannotPlay when the
\* status is Open and the clock is before fill_deadline, with GameNotOpen when
\* the status is not Open, and with DeadlinePassed otherwise.
C13_OperatorNeverPlays ==
    /\ ~Contains(escrow.players, escrow.operator)
    /\ join_game(escrow, lamports, escrow.operator, clock)
           = Result(JoinRejection("OperatorCannotPlay"), escrow, lamports)

\* the operator tried to join its own Open game
C13_Witness ==
    /\ escrow.status = "Open"
    /\ last.op = "join_game"
    /\ last.res = "OperatorCannotPlay"

\* C14: winner and proof_hash are set exactly when the status is Complete, the
\* winner is one of the players, and once set neither value changes.
C14_WinnerSetOnCompletion ==
    /\ []( /\ (escrow.winner # None) <=> (escrow.status = "Complete")
           /\ (escrow.proof_hash # None) <=> (escrow.status = "Complete")
           /\ escrow.winner # None => Contains(escrow.players, escrow.winner[1]) )
    /\ [][escrow.winner # None
            => (escrow'.winner = escrow.winner /\ escrow'.proof_hash = escrow.proof_hash)]_vars

\* a game completed with a winner, in a game of more than one player
C14_Witness ==
    /\ escrow.status = "Complete"
    /\ escrow.winner # None
    /\ escrow.proof_hash # None
    /\ Len(escrow.players) > 1
    /\ last.op = "declare_winner"
    /\ last.res = "Ok"

\* C15: an entry of `refunded` changes only from false to true, only by a
\* successful claim_refund that pays that participant while the status is
\* Cancelled; so a true entry implies Cancelled, and a caller that is not in
\* `players` is never refunded (PlayerNotInGame once the game is Cancelled).
C15_RefundFlags ==
    /\ []( /\ \A i \in 1 .. Len(escrow.refunded) :
                  escrow.refunded[i] => escrow.status = "Cancelled"
           /\ \A p \in Signers :
                  ~Contains(escrow.players, p) =>
                      /\ ledger.refunds[p] = 0
                      /\ claim_refund(escrow, lamports, p)
                             = Result(IF escrow.status = "Cancelled"
                                      THEN "PlayerNotInGame" ELSE "GameNotCancelled",
                                      escrow, lamports) )
    /\ [][\A i \in 1 .. Len(escrow.refunded) :
              escrow'.refunded[i] # escrow.refunded[i] =>
                  /\ ~escrow.refunded[i]
                  /\ escrow'.refunded[i]
                  /\ last'.op = "claim_refund"
                  /\ last'.res = "Ok"
                  /\ escrow.status = "Cancelled"
                  /\ escrow' = [escrow EXCEPT !.refunded[i] = TRUE]
                  /\ lamports'[escrow.players[i]]
                         = lamports[escrow.players[i]] + escrow.buy_in]_vars

\* one participant of a Cancelled game refunded, another not yet
C15_Witness ==
    /\ escrow.status = "Cancelled"
    /\ last.op = "claim_refund"
    /\ last.res = "Ok"
    /\ \E i, j \in 1 .. Len(escrow.refunded) : escrow.refunded[i] /\ ~escrow.refunded[j]

\* C17: no instruction changes game_id, operator, buy_in, max_players, seed,
\* created_at or fill_deadline; started_at is written only by the one
\* successful start_game, which sets it to the clock.
C17_ImmutableFields ==
    [][ /\ escrow'.game_id = escrow.game_id
        /\ escrow'.operator = escrow.operator
        /\ escrow'.buy_in = escrow.buy_in
        /\ escrow'.max_players = escrow.max_players
        /\ escrow'.seed = escrow.seed
        /\ escrow'.created_at = escrow.created_at
        /\ escrow'.fill_deadline = escrow.fill_deadline
        /\ escrow'.started_at # escrow.started_at =>
               /\ last'.op = "start_game"
               /\ last'.res = "Ok"
               /\ escrow.started_at = None
               /\ escrow'.started_at = Some(clock) ]_vars

\* a game halted and resumed after it was started, its start time kept
C17_Witness ==
    /\ escrow.status = "Active"
    /\ last.op = "resume_game"
    /\ last.res = "Ok"
    /\ escrow.started_at # None
    /\ clock > escrow.started_at[1]

Unrefunded == Cardinality({i \in 1 .. Len(escrow.refunded) : ~escrow.refunded[i]})

\* C19: unless the status is Complete, the escrow holds above its reserve
\* buy_in times the number of participants not refunded, so the debit of
\* claim_refund neither underflows nor reaches into the reserve; a record with
\* a winner has no refunded participant.
C19_Solvency ==
    /\ escrow.status # "Complete" =>
           lamports[EscrowKey] - RentExempt = escrow.buy_in * Unrefunded
    /\ \A p \in Signers :
           LET r == claim_refund(escrow, lamports, p) IN
               /\ r.res # "LamportUnderflow"
               /\ r.lamports[EscrowKey] >= RentExempt
    /\ escrow.winner # None =>
           \A i \in 1 .. Len(escrow.refunded) : ~escrow.refunded[i]

\* a Cancelled game of two players, one of them refunded
C19_Witness ==
    /\ escrow.status = "Cancelled"
    /\ Len(escrow.refunded) = 2
    /\ Unrefunded = 1
    /\ last.op = "claim_refund"
    /\ last.res = "Ok"

\* C20: Open implies current_players < max_players; Filled, Active, Paused and
\* Complete imply current_players = max_players; `players` does not change
\* once the status has left Open; a successful declare_winner computes the
\* payout buy_in * max_players.
C20_CapacityAndStatus ==
    /\ []( /\ escrow.status = "Open" => escrow.current_players < escrow.max_players
           /\ escrow.status \in {"Filled", "Active", "Paused", "Complete"} =>
                  escrow.current_players = escrow.max_players )
    /\ [][escrow.status # "Open" => escrow'.players = escrow.players]_vars
    /\ [][(last'.op = "declare_winner" /\ last'.res = "Ok")
            => Payout = escrow.buy_in * escrow.max_players]_vars

\* the pool of a two-player game paid out
C20_Witness ==
    /\ escrow.status = "Complete"
    /\ escrow.max_players = 2
    /\ ledger.paid_out = escrow.buy_in * escrow.max_players
    /\ last.op = "declare_winner"
    /\ last.res = "Ok"

\* C16: in a Cancelled game claim_refund by a participant not yet refunded
\* succeeds whatever the other participants have done, and, each signer's
\* claim_refund being weakly fair, a Cancelled game reaches a state in which
\* every participant is refunded.
C16_RefundsDoNotBlock ==
    /\ [](escrow.status = "Cancelled" =>
            \A i \in 1 .. Len(escrow.players) :
                ~escrow.refunded[i] =>
                    claim_refund(escrow, lamports, escrow.players[i]).res = "Ok")
    /\ (escrow.status = "Cancelled") ~> (escrow.status = "Cancelled" /\ AllRefunded)

\* the second participant of a Cancelled game refunded before the first
C16_Witness ==
    /\ escrow.status = "Cancelled"
    /\ Len(escrow.refunded) = 2
    /\ ~escrow.refunded[1]
    /\ escrow.refunded[2]
    /\ last.op = "claim_refund"
    /\ last.res = "Ok"

\* created_at + fill_deadline_hours * 3600 over the integers, five limbs
ExactDeadline == AddLimbs(MulLimbs(ledger.hours, SecondsPerHour), escrow.created_at)

\* C18: for every fill_deadline_hours create_game accepts, the stored
\* fill_deadline is created_at + fill_deadline_hours * 3600 and is later than
\* created_at.
C18_DeadlineAfterCreation ==
    (last.op = "create_game" /\ last.res = "Ok") =>
        /\ ~IsNegative(escrow.fill_deadline)
        /\ <<escrow.fill_deadline[1], escrow.fill_deadline[2], escrow.fill_deadline[3],
             escrow.fill_deadline[4], 0>> = ExactDeadline
        /\ SignedLess(escrow.created_at, escrow.fill_deadline)

====
